---- MODULE Spec2Model ----
(***************************************************************************)
(* A model of bskyunroll (src/index.mjs): the thread reconstruction        *)
(* (extractReplies / extractFacets / extractEmbeds), and the request       *)
(* pipeline fetchThread with its Deno KV memoisation, run by concurrent    *)
(* requests that interleave at the awaits.                                 *)
(***************************************************************************)
EXTENDS Integers, Sequences, FiniteSets, TLC

\* ------------------------------------------------------------------ bounds
\* reply nodes below the root in the trees given to the reconstruction
MaxNodes == 3
\* requests the server receives, and reply nodes in the trees the feed serves them
MaxReq == 2
MaxFeedNodes == 1
\* facets per post, and features per facet, given to extractFacets
MaxFacets == 2
MaxFeatures == 2

VARIABLES
    facetsIn,   \* extractFacets: the `facets` argument
    fctsOut,    \* extractFacets: the returned array
    facetsDone, \* extractFacets has returned
    treeIn,     \* the parsed feed response whose .thread is the raw reply tree
    out,        \* the object built from it by lines 185-199
    threadDone, \* lines 185-199 have run
    kv,         \* the Deno KV store: what kv.get([postURL]) gives as entry.value
    pc,         \* where each request stands in the handler / fetchThread
    url,        \* each request's postURL
    entry,      \* fetchThread's local `entry.value`
    doc,        \* fetchThread's local `postDoc`
    outOf,      \* fetchThread's local `out`
    result,     \* what fetchThread returned to the handler (or that it threw)
    status,     \* the HTTP status the handler set
    calls,      \* the outbound operations each request has issued, in order
    wrote,      \* the {key, value} pairs each request has committed to the store
    doneBefore  \* the requests that had ended when this one arrived

pureVars == <<facetsIn, fctsOut, facetsDone, treeIn, out, threadDone>>
serverVars == <<kv, pc, url, entry, doc, outOf, result, status, calls, wrote, doneBefore>>
vars == <<facetsIn, fctsOut, facetsDone, treeIn, out, threadDone,
          kv, pc, url, entry, doc, outOf, result, status, calls, wrote, doneBefore>>

\* ------------------------------------------------------- JavaScript values
\* `undefined` / a missing property, for values that are otherwise arrays or
\* objects: a record with the one field `present`.
Absent == [present |-> FALSE]
\* An array-valued property that is there.
Array(list) == [present |-> TRUE, list |-> list]

LinkType == "app.bsky.richtext.facet#link"
MentionType == "app.bsky.richtext.facet#mention"
TagType == "app.bsky.richtext.facet#tag"
ImagesType == "app.bsky.embed.images"

\* ------------------------------------------------------------ extractEmbeds
\* The thumbnail URL template of line 85, kept as its parts.
cdnUrl(didPlc, link, mime) ==
    <<"https://cdn.bsky.app/img/feed_thumbnail/plain/", didPlc, "/", link, "@", mime>>

\* mimeType.split("/").pop(): a MIME type is modelled as its "/"-separated
\* segments, and pop() takes the last one.
mimeSubtype(mimeType) == mimeType[Len(mimeType)]

\* embeds: Absent, or [present, type, images] where type = "" stands for an
\* object without a "$type" key.
extractEmbeds(embeds, didPlc) ==
    IF embeds.present /\ embeds.type # ""
    THEN IF embeds.type = ImagesType
         THEN [k \in 1..Len(embeds.images) |->
                 cdnUrl(didPlc, embeds.images[k].link,
                        mimeSubtype(embeds.images[k].mimeType))]
         ELSE <<>>
    ELSE <<>>

\* ------------------------------------------------------------ extractFacets
RECURSIVE pushFeatures(_, _, _)
\* lines 104-110: one entry per link feature of the facet
pushFeatures(fcts, facet, features) ==
    IF features = <<>> THEN fcts
    ELSE pushFeatures(
            Append(fcts, [uri   |-> Head(features).uri,
                          start |-> facet.index.byteStart,
                          end   |-> facet.index.byteEnd]),
            facet, Tail(features))

\* line 102
linkFeatures(facet) == SelectSeq(facet.features, LAMBDA d : d.type = LinkType)

RECURSIVE forFacets(_, _)
\* lines 101-112
forFacets(fcts, facets) ==
    IF facets = <<>> THEN fcts
    ELSE LET facet    == Head(facets)
             features == linkFeatures(facet)
         IN  forFacets(IF Len(features) > 0
                       THEN pushFeatures(fcts, facet, features)
                       ELSE fcts,
                       Tail(facets))

\* A plausible slip: only the first link feature of a facet is pushed.
extractFacets_FirstLinkOnly(facets) ==
    IF facets.present
    THEN LET RECURSIVE go(_, _)
             go(fcts, fs) ==
                 IF fs = <<>> THEN fcts
                 ELSE LET features == linkFeatures(Head(fs))
                      IN  go(IF Len(features) > 0
                             THEN pushFeatures(fcts, Head(fs), <<Head(features)>>)
                             ELSE fcts,
                             Tail(fs))
         IN  go(<<>>, facets.list)
    ELSE <<>>

\* lines 98-115
extractFacets(facets) ==
    IF facets.present THEN forFacets(<<>>, facets.list) ELSE <<>>

\* ------------------------------------------------- inputs of extractFacets
\* Every feature carries a destination (or subject) that tells where in the
\* input it stands: facet k, feature j.
feature(type, k, j) ==
    IF type = LinkType THEN [type |-> type, uri |-> <<"https://x.test", k, j>>]
    ELSE IF type = MentionType THEN [type |-> type, did |-> <<"did", k, j>>]
    ELSE [type |-> type, tag |-> <<"tag", k, j>>]

FeatureTypes == {LinkType, MentionType, TagType}

SeqsUpTo(S, n) == UNION {[1..m -> S] : m \in 0..n}

\* facet k with features of the given types; its byte range is its own
facetOf(k, types) ==
    [index    |-> [byteStart |-> 10 * k, byteEnd |-> 10 * k + 5],
     features |-> [j \in 1..Len(types) |-> feature(types[j], k, j)]]

FacetLists ==
    {[k \in 1..Len(tl) |-> facetOf(k, tl[k])] :
        tl \in SeqsUpTo(SeqsUpTo(FeatureTypes, MaxFeatures), MaxFacets)}

FacetInputs == {Absent} \cup {Array(l) : l \in FacetLists}

\* --------------------------------------------------------- the raw reply tree
\* thread.thread of the feed response is a post with nested `replies` arrays.
\* The model lists the reply nodes of one tree in document order (pre-order,
\* siblings in array order): node i is entry i of `replies`, and `up` names
\* the node whose replies array holds it (0: the root's own array). A node's
\* cid and uri are its own: no two posts share one.
RootIdx == 0

Dids == {"did:plc:a", "did:plc:b"}

cidOf(i) == <<"cid", i>>
uriOf(i) == <<"at://post", i>>
\* the cid of the root of some other thread
ForeignRootCid == <<"cid", -1>>

rawPost(i, did, record) ==
    [uri    |-> uriOf(i),
     cid    |-> cidOf(i),
     author |-> [did |-> did],
     record |-> record]

rootRecord == [text |-> <<"text", RootIdx>>, embed |-> Absent, facets |-> Absent]

\* a root record with an image embed and a facet that holds a link and a mention
richRootRecord ==
    [text   |-> <<"text", RootIdx>>,
     embed  |-> [present |-> TRUE, type |-> ImagesType,
                 images  |-> <<[link |-> "abc123", mimeType |-> <<"image", "jpeg">>]>>],
     facets |-> Array(<<[index    |-> [byteStart |-> 5, byteEnd |-> 10],
                         features |-> <<[type |-> LinkType, uri |-> "https://x.test"],
                                        [type |-> MentionType, did |-> "did:plc:m"]>>]>>)]

RootRecords == {rootRecord, richRootRecord}

replyRecord(i, rcid, pcid) ==
    [text   |-> <<"text", i>>,
     embed  |-> Absent,
     facets |-> Absent,
     reply  |-> [root |-> [cid |-> rcid], parent |-> [cid |-> pcid]]]

\* the reply nodes that may stand at place i of the listing: its reply.parent
\* names the root or a node listed before it
NodesAt(i) ==
    {[up |-> u, post |-> rawPost(i, d, replyRecord(i, rc, cidOf(p)))] :
        u \in 0..(i - 1), d \in Dids,
        rc \in {cidOf(RootIdx), ForeignRootCid}, p \in 0..(i - 1)}

\* Appending nd keeps the listing a pre-order one: every node between nd's
\* container and nd lies inside that container's subtree.
KeepsPreorder(nodes, nd) ==
    \A j \in (nd.up + 1)..Len(nodes) : nodes[j].up >= nd.up

RECURSIVE ReplyListings(_)
ReplyListings(n) ==
    IF n = 0 THEN {<<>>}
    ELSE {Append(nodes, nd) :
            <<nodes, nd>> \in
                {pr \in ReplyListings(n - 1) \X NodesAt(n) : KeepsPreorder(pr[1], pr[2])}}

\* the trees of at most n reply nodes whose root post is by d
RawTrees(d, n) ==
    {[post |-> rawPost(RootIdx, d, rootRecord), replies |-> nodes] :
        nodes \in UNION {ReplyListings(m) : m \in 0..n}}

\* node.replies of node p (thread.replies when p is the root): the indices of
\* the nodes its array holds, in array order
replyArray(nodes, p) ==
    SelectSeq([i \in 1..Len(nodes) |-> i], LAMBDA i : nodes[i].up = p)

\* ----------------------------------------------------------- extractReplies
\* lines 136-141 and 185-190: the normalized record of one post
normalize(post, authorDid) ==
    [uri    |-> post.uri,
     text   |-> post.record.text,
     embed  |-> extractEmbeds(post.record.embed, authorDid),
     facets |-> extractFacets(post.record.facets)]

\* Plausible slips in the admission test: the author test left out, the
\* parent test left out.
admit_AnyAuthor(reply, authorDid, cid, pcid) ==
    /\ reply.post.record.reply.root.cid = cid
    /\ reply.post.record.reply.parent.cid = pcid

admit_AnyParent(reply, authorDid, cid, pcid) ==
    /\ reply.post.author.did = authorDid
    /\ reply.post.record.reply.root.cid = cid

\* lines 133-135
admit(reply, authorDid, cid, pcid) ==
    /\ reply.post.author.did = authorDid
    /\ reply.post.record.reply.root.cid = cid
    /\ reply.post.record.reply.parent.cid = pcid

RECURSIVE traverseReplies_DescendAlways(_, _, _, _, _, _)
\* A plausible slip: the recursion stands outside the three tests, so the
\* replies of a rejected node are walked too.
traverseReplies_DescendAlways(nodes, authorDid, cid, replies, array, pcid) ==
    IF array = <<>> THEN replies
    ELSE LET i      == Head(array)
             reply  == nodes[i]
             pushed == IF admit(reply, authorDid, cid, pcid)
                       THEN Append(replies, normalize(reply.post, authorDid))
                       ELSE replies
             below  == traverseReplies_DescendAlways(nodes, authorDid, cid, pushed,
                                                     replyArray(nodes, i), reply.post.cid)
         IN  traverseReplies_DescendAlways(nodes, authorDid, cid, below, Tail(array), pcid)

RECURSIVE traverseReplies_FirstOnly(_, _, _, _, _, _)
\* A plausible slip: the loop ends at the first accepted reply (a strictly
\* linear chain), so later siblings are never looked at.
traverseReplies_FirstOnly(nodes, authorDid, cid, replies, array, pcid) ==
    IF array = <<>> THEN replies
    ELSE LET i     == Head(array)
             reply == nodes[i]
         IN  IF admit(reply, authorDid, cid, pcid)
             THEN traverseReplies_FirstOnly(nodes, authorDid, cid,
                      Append(replies, normalize(reply.post, authorDid)),
                      replyArray(nodes, i), reply.post.cid)
             ELSE traverseReplies_FirstOnly(nodes, authorDid, cid, replies,
                                            Tail(array), pcid)

RECURSIVE traverseReplies(_, _, _, _, _, _)
\* lines 127-149. `replies` is the closure's result array so far, `array` the
\* replyArray argument (what is left of it), pcid the expected parent cid.
traverseReplies(nodes, authorDid, cid, replies, array, pcid) ==
    IF array = <<>> THEN replies
    ELSE LET i      == Head(array)
             reply  == nodes[i]
             pushed == IF admit(reply, authorDid, cid, pcid)
                       THEN Append(replies, normalize(reply.post, authorDid))
                       ELSE replies
             below  == IF admit(reply, authorDid, cid, pcid)
                          /\ Len(replyArray(nodes, i)) > 0
                       THEN traverseReplies(nodes, authorDid, cid, pushed,
                                            replyArray(nodes, i), reply.post.cid)
                       ELSE pushed
         IN  traverseReplies(nodes, authorDid, cid, below, Tail(array), pcid)

\* lines 123-153
extractReplies(thread, authorDid) ==
    traverseReplies(thread.replies, authorDid, thread.post.cid, <<>>,
                    replyArray(thread.replies, RootIdx), thread.post.cid)

\* -------------------------------------------------- fetchThread, lines 185-199
\* a thrown TypeError
Thrown == [thrown |-> TRUE]
\* what safeJSONParse gives for text that is no JSON (lines 42-44)
Undefined == [undefined |-> TRUE]
\* a parsed response that has no `thread` property (an error object)
NoThreadResponse == [error |-> "InvalidRequest"]

hasThread(json) == json # Undefined /\ json # NoThreadResponse

\* lines 185-199: the object `out`, or the TypeError thrown by reading
\* thread.thread.post of a response that has none
buildOut(json) ==
    IF ~hasThread(json) THEN Thrown
    ELSE [message |-> "success",
          author  |-> json.thread.post.author,
          thread  |-> <<normalize(json.thread.post, json.thread.post.author.did)>>
                      \o extractReplies(json.thread, json.thread.post.author.did)]


\* ------------------------------------------------------------- the server
NoValue == [none |-> TRUE]
\* entry.value of a key that was never set
NullValue == [null |-> TRUE]

Reqs == 1..MaxReq

\* a post URL, as its "/"-separated segments
PostURLs ==
    {<<"https:", "", "bsky.app", "profile", "alice.test", "post", "3kaaa">>,
     <<"https:", "", "bsky.app", "profile", "bob.test", "post", "3kbbb">>}

\* the postURL of a request that has not arrived
NoURL == <<>>

\* postURL.split("/").pop(), line 178
postThreadTop(postURL) == postURL[Len(postURL)]

\* fetchHTML, lines 22-31: null when the fetch or the parse threw, else the
\* parsed document. A document holds the element p#bsky_did or does not.
NullDoc == [null |-> TRUE]
DocWithoutMarker == [marker |-> Absent]
DocWithMarker(innerText) == [marker |-> [present |-> TRUE, innerText |-> innerText]]
\* the account whose post the URL names
OwnerDid(postURL) == IF postURL[5] = "alice.test" THEN "did:plc:a" ELSE "did:plc:b"
\* what the page fetch of a post URL may resolve to: nothing, a page without
\* the element, or the post's page, which carries its author's did
FetchedDocs(postURL) ==
    {NullDoc, DocWithoutMarker, DocWithMarker(<<"\n", " ", OwnerDid(postURL), " ">>)}

IsSpace(c) == c \in {" ", "\n", "\t"}
RECURSIVE trimStart(_)
trimStart(str) ==
    IF str # <<>> /\ IsSpace(Head(str)) THEN trimStart(Tail(str)) ELSE str
RECURSIVE trimEnd(_)
trimEnd(str) ==
    IF str # <<>> /\ IsSpace(str[Len(str)])
    THEN trimEnd(SubSeq(str, 1, Len(str) - 1)) ELSE str
\* String.prototype.trim on text kept as a sequence of pieces
trim(str) == trimEnd(trimStart(str))

\* the JavaScript null that didFromPost returns
NullDid == <<"null">>

\* lines 63-70
didFromPost(postDoc) ==
    IF postDoc = NullDoc THEN NullDid
    ELSE IF ~postDoc.marker.present THEN NullDid
    ELSE trim(postDoc.marker.innerText)

\* line 181: the at:// URI the feed is asked for; a null did is interpolated
\* as the text "null"
threadURL(did, postURL) ==
    [host |-> "https://public.api.bsky.app/xrpc/app.bsky.feed.getPostThread",
     uri  |-> <<"at://">> \o did \o <<"/app.bsky.feed.post/", postThreadTop(postURL)>>]

\* fetchJSON, lines 52-56: it throws when the fetch fails, gives undefined
\* for text that is no JSON, else the parsed value
FetchFailed == [fetchFailed |-> TRUE]
\* the trees the feed may serve for a post of the repository did: any reply
\* tree, changing from one fetch to the next, below a root post by did
FeedTrees(did) == RawTrees(did[1], MaxFeedNodes)
\* what the feed fetch may resolve to, for the did asked for: no repository
\* is named "null", so no thread comes back for it
FeedResponses(did) ==
    {FetchFailed, Undefined, NoThreadResponse} \cup
    (IF did = NullDid THEN {} ELSE {[thread |-> t] : t \in FeedTrees(did)})

InvalidURL == [message |-> "Error: Invalid URL"]

\* an outbound operation: a store call, the page fetch, the feed fetch
Call(op) == [op |-> op]
FeedCall(u) == [op |-> "feed", url |-> u]

\* lines 217-219
statusOf(o) == IF o.message # "success" THEN 400 ELSE 200

InitServer ==
    /\ kv = [u \in PostURLs |-> NullValue]
    /\ pc = [r \in Reqs |-> "idle"]
    /\ url = [r \in Reqs |-> NoURL]
    /\ entry = [r \in Reqs |-> NoValue]
    /\ doc = [r \in Reqs |-> NoValue]
    /\ outOf = [r \in Reqs |-> NoValue]
    /\ result = [r \in Reqs |-> NoValue]
    /\ status = [r \in Reqs |-> 0]
    /\ calls = [r \in Reqs |-> <<>>]
    /\ wrote = [r \in Reqs |-> {}]
    /\ doneBefore = [r \in Reqs |-> {}]

\* the handler ends: fetchThread returned o (lines 215-223)
Respond(r, o) ==
    /\ result' = [result EXCEPT ![r] = o]
    /\ status' = [status EXCEPT ![r] = statusOf(o)]
    /\ pc' = [pc EXCEPT ![r] = "done"]

\* fetchThread threw: the handler's await rethrows and lines 217-223 never run
Throw(r) ==
    /\ result' = [result EXCEPT ![r] = Thrown]
    /\ pc' = [pc EXCEPT ![r] = "done"]
    /\ UNCHANGED status

\* lines 206-215 and 161: a request arrives, fetchThread starts and awaits
\* kv.get. Requests are numbered in the order they arrive.
Request(r, u) ==
    /\ pc[r] = "idle"
    /\ \A q \in Reqs : q < r => pc[q] # "idle"
    /\ url' = [url EXCEPT ![r] = u]
    /\ pc' = [pc EXCEPT ![r] = "kv.get"]
    /\ calls' = [calls EXCEPT ![r] = <<Call("kv.get")>>]
    /\ doneBefore' = [doneBefore EXCEPT ![r] = {q \in Reqs : pc[q] = "done"}]
    /\ UNCHANGED <<kv, entry, doc, outOf, result, status, wrote>>
    /\ UNCHANGED pureVars

\* A plausible slip: the stored value is not returned, and the pipeline runs
\* on a hit as on a miss.
KvGetResolved_NoReturnOnHit(r) ==
    /\ pc[r] = "kv.get"
    /\ entry' = [entry EXCEPT ![r] = kv[url[r]]]
    /\ pc' = [pc EXCEPT ![r] = "fetchHTML"]
    /\ calls' = [calls EXCEPT ![r] = Append(@, Call("page"))]
    /\ UNCHANGED <<result, status>>
    /\ UNCHANGED <<kv, url, doc, outOf, wrote, doneBefore>>
    /\ UNCHANGED pureVars

\* lines 161-167: kv.get resolves; a stored value is returned, else the page
\* fetch is issued
KvGetResolved(r) ==
    /\ pc[r] = "kv.get"
    /\ entry' = [entry EXCEPT ![r] = kv[url[r]]]
    /\ IF kv[url[r]] # NullValue
       THEN /\ Respond(r, kv[url[r]])
            /\ UNCHANGED calls
       ELSE /\ pc' = [pc EXCEPT ![r] = "fetchHTML"]
            /\ calls' = [calls EXCEPT ![r] = Append(@, Call("page"))]
            /\ UNCHANGED <<result, status>>
    /\ UNCHANGED <<kv, url, doc, outOf, wrote, doneBefore>>
    /\ UNCHANGED pureVars

\* A plausible slip: the null check of lines 168-172 is missing, and a failed
\* page fetch goes on to the feed fetch.
HtmlResolved_NoNullCheck(r, postDoc) ==
    /\ pc[r] = "fetchHTML"
    /\ doc' = [doc EXCEPT ![r] = postDoc]
    /\ pc' = [pc EXCEPT ![r] = "fetchJSON"]
    /\ calls' = [calls EXCEPT
                    ![r] = Append(@, FeedCall(threadURL(didFromPost(postDoc), url[r])))]
    /\ UNCHANGED <<result, status>>
    /\ UNCHANGED <<kv, url, entry, outOf, wrote, doneBefore>>
    /\ UNCHANGED pureVars

\* lines 167-182: fetchHTML resolves with postDoc; null is answered with the
\* error object, anything else goes on to the feed fetch
HtmlResolved(r, postDoc) ==
    /\ pc[r] = "fetchHTML"
    /\ doc' = [doc EXCEPT ![r] = postDoc]
    /\ IF postDoc = NullDoc
       THEN /\ Respond(r, InvalidURL)
            /\ UNCHANGED calls
       ELSE /\ pc' = [pc EXCEPT ![r] = "fetchJSON"]
            /\ calls' = [calls EXCEPT
                            ![r] = Append(@, FeedCall(threadURL(didFromPost(postDoc), url[r])))]
            /\ UNCHANGED <<result, status>>
    /\ UNCHANGED <<kv, url, entry, outOf, wrote, doneBefore>>
    /\ UNCHANGED pureVars

\* A plausible slip: the response is read with optional chaining, so one
\* without a thread builds (and stores) a result that has no posts.
JsonResolved_StoresUnbuilt(r, json) ==
    /\ pc[r] = "fetchJSON"
    /\ IF json = FetchFailed
       THEN /\ Throw(r)
            /\ UNCHANGED <<outOf, calls>>
       ELSE /\ outOf' = [outOf EXCEPT
                            ![r] = IF buildOut(json) = Thrown
                                   THEN [message |-> "success", author |-> Undefined,
                                         thread |-> <<>>]
                                   ELSE buildOut(json)]
            /\ pc' = [pc EXCEPT ![r] = "kv.set"]
            /\ calls' = [calls EXCEPT ![r] = Append(@, Call("kv.set"))]
            /\ UNCHANGED <<result, status>>
    /\ UNCHANGED <<kv, url, entry, doc, wrote, doneBefore>>
    /\ UNCHANGED pureVars

\* lines 182-201: fetchJSON resolves (or throws); the thread is rebuilt and
\* kv.set is issued, or reading thread.thread.post throws
JsonResolved(r, json) ==
    /\ pc[r] = "fetchJSON"
    /\ IF json = FetchFailed \/ buildOut(json) = Thrown
       THEN /\ Throw(r)
            /\ UNCHANGED <<outOf, calls>>
       ELSE /\ outOf' = [outOf EXCEPT ![r] = buildOut(json)]
            /\ pc' = [pc EXCEPT ![r] = "kv.set"]
            /\ calls' = [calls EXCEPT ![r] = Append(@, Call("kv.set"))]
            /\ UNCHANGED <<result, status>>
    /\ UNCHANGED <<kv, url, entry, doc, wrote, doneBefore>>
    /\ UNCHANGED pureVars

\* A plausible slip: the value is never stored (kv.set under another key).
KvSetResolved_NotStored(r) ==
    /\ pc[r] = "kv.set"
    /\ Respond(r, outOf[r])
    /\ UNCHANGED <<kv, url, entry, doc, outOf, calls, wrote, doneBefore>>
    /\ UNCHANGED pureVars

\* lines 201-203: kv.set commits and resolves, and `out` is returned
KvSetResolved(r) ==
    /\ pc[r] = "kv.set"
    /\ kv' = [kv EXCEPT ![url[r]] = outOf[r]]
    /\ wrote' = [wrote EXCEPT ![r] = @ \cup {[key |-> url[r], value |-> outOf[r]]}]
    /\ Respond(r, outOf[r])
    /\ UNCHANGED <<url, entry, doc, outOf, calls, doneBefore>>
    /\ UNCHANGED pureVars

\* line 201: kv.set rejects (the value is over the store's size limit, the
\* store is unavailable): nothing is written and fetchThread throws
KvSetRejected(r) ==
    /\ pc[r] = "kv.set"
    /\ Throw(r)
    /\ UNCHANGED <<kv, url, entry, doc, outOf, calls, wrote, doneBefore>>
    /\ UNCHANGED pureVars

\* the feed fetch that request r has issued asks for this did
AskedDid(r) == didFromPost(doc[r])

\* the page fetch of request r ends: one of the outcomes it may have
PageResolved(r) ==
    /\ pc[r] = "fetchHTML"
    /\ \E postDoc \in FetchedDocs(url[r]) : HtmlResolved(r, postDoc)

\* the feed answers request r: one of the responses it may give
FeedResolved(r) ==
    /\ pc[r] = "fetchJSON"
    /\ \E json \in FeedResponses(AskedDid(r)) : JsonResolved(r, json)

InitPureIdle ==
    /\ facetsIn = NoValue
    /\ fctsOut = <<>>
    /\ facetsDone = FALSE
    /\ treeIn = NoValue
    /\ out = NoValue
    /\ threadDone = FALSE

Init == InitServer /\ InitPureIdle

Next ==
    \/ \E r \in Reqs, u \in PostURLs : Request(r, u)
    \/ \E r \in Reqs : KvGetResolved(r)
    \/ \E r \in Reqs : PageResolved(r)
    \/ \E r \in Reqs : FeedResolved(r)
    \/ \E r \in Reqs : KvSetResolved(r)
    \/ \E r \in Reqs : KvSetRejected(r)

\* requests that overlap at every await
Spec == Init /\ [][Next]_vars

\* no request is between its arrival and its end
Quiet == \A q \in Reqs : pc[q] \in {"idle", "done"}

\* a request arrives while no other is in flight
RequestAlone(r, u) == Quiet /\ Request(r, u)

NextSeq ==
    \/ \E r \in Reqs, u \in PostURLs : RequestAlone(r, u)
    \/ \E r \in Reqs : KvGetResolved(r)
    \/ \E r \in Reqs : PageResolved(r)
    \/ \E r \in Reqs : FeedResolved(r)
    \/ \E r \in Reqs : KvSetResolved(r)
    \/ \E r \in Reqs : KvSetRejected(r)

\* requests that come one after the other
SpecSeq == Init /\ [][NextSeq]_vars

\* --------------------------------------------------------------- pure runs

InitFacets ==
    /\ facetsIn \in FacetInputs
    /\ fctsOut = <<>>
    /\ facetsDone = FALSE
    /\ treeIn = NoValue
    /\ out = NoValue
    /\ threadDone = FALSE
    /\ InitServer

\* extractFacets(facets) is called and returns
CallExtractFacets ==
    /\ ~facetsDone
    /\ facetsIn # NoValue
    /\ fctsOut' = extractFacets(facetsIn)
    /\ facetsDone' = TRUE
    /\ UNCHANGED <<facetsIn, treeIn, out, threadDone>>
    /\ UNCHANGED serverVars

SpecFacets == InitFacets /\ [][CallExtractFacets]_vars

RECURSIVE GrowTree(_, _, _)
\* treeIn is a tree as in RawTrees(d, MaxNodes), grown one reply node at a
\* time below the given root post
GrowTree(root, nodes, k) ==
    IF k = 0
    THEN treeIn = [thread |-> [post |-> root, replies |-> nodes]]
    ELSE \E nd \in NodesAt(Len(nodes) + 1) :
            KeepsPreorder(nodes, nd) /\ GrowTree(root, Append(nodes, nd), k - 1)

InitThread ==
    /\ \E d \in Dids, rec \in RootRecords, n \in 0..MaxNodes :
          GrowTree(rawPost(RootIdx, d, rec), <<>>, n)
    /\ out = NoValue
    /\ threadDone = FALSE
    /\ facetsIn = NoValue
    /\ fctsOut = <<>>
    /\ facetsDone = FALSE
    /\ InitServer

\* lines 185-199 run on the parsed feed response
Reconstruct ==
    /\ ~threadDone
    /\ treeIn # NoValue
    /\ out' = buildOut(treeIn)
    /\ threadDone' = TRUE
    /\ UNCHANGED <<treeIn, facetsIn, fctsOut, facetsDone>>
    /\ UNCHANGED serverVars

SpecThread == InitThread /\ [][Reconstruct]_vars

\* =================================================================== claims
\* ---- extractFacets (SpecFacets)
\* the places <<k, j>> of the input that hold a link feature
LinkPlaces ==
    IF facetsIn.present
    THEN UNION {{<<k, j>> : j \in {f \in 1..Len(facetsIn.list[k].features) :
                                      facetsIn.list[k].features[f].type = LinkType}} :
                k \in 1..Len(facetsIn.list)}
    ELSE {}

\* how many link places stand at or before <<k, j>>, facets first, then features
PlaceRank(k, j) ==
    Cardinality({pl \in LinkPlaces : pl[1] < k \/ (pl[1] = k /\ pl[2] <= j)})

\* C9: for every facet list, an absent one included, extractFacets returns a
\* list holding, in input order of facets and then of features, exactly one
\* {uri, start, end} per link feature, start and end being the owning facet's
\* byteStart and byteEnd; other features contribute nothing.
C9_FacetLinksExact ==
    facetsDone =>
        /\ DOMAIN fctsOut = 1..Len(fctsOut)
        /\ Len(fctsOut) = Cardinality(LinkPlaces)
        /\ \A pl \in LinkPlaces :
              fctsOut[PlaceRank(pl[1], pl[2])] =
                  [uri   |-> facetsIn.list[pl[1]].features[pl[2]].uri,
                   start |-> facetsIn.list[pl[1]].index.byteStart,
                   end   |-> facetsIn.list[pl[1]].index.byteEnd]

\* a facet with two link features, and a feature that is no link, were given
C9_Witness ==
    /\ facetsDone
    /\ facetsIn.present
    /\ \E k \in 1..Len(facetsIn.list) : Len(linkFeatures(facetsIn.list[k])) >= 2
    /\ \E k \in 1..Len(facetsIn.list) :
          Len(linkFeatures(facetsIn.list[k])) < Len(facetsIn.list[k].features)
    /\ Len(fctsOut) >= 2

\* ---- the reconstruction (SpecThread)
rootPost == treeIn.thread.post
rawNodes == treeIn.thread.replies
\* the raw post an element of the thread was produced from, found by its uri
RawIdx(element) ==
    CHOOSE i \in 0..Len(rawNodes) :
        element.uri = (IF i = 0 THEN rootPost.uri ELSE rawNodes[i].post.uri)
RawOf(element) == IF RawIdx(element) = 0 THEN rootPost ELSE rawNodes[RawIdx(element)].post
\* the post whose replies array holds node i
ContainerPost(i) == IF rawNodes[i].up = 0 THEN rootPost ELSE rawNodes[rawNodes[i].up].post
\* the positions of the thread that hold the post of node i
PositionsOf(i) ==
    {p \in 1..Len(out.thread) :
        out.thread[p].uri = (IF i = 0 THEN rootPost.uri ELSE rawNodes[i].post.uri)}

\* the normalized record expected of a post: empty lists for a post without
\* embed and facets, and for the post with one image and one link facet the
\* one thumbnail URL and the one link
ExpectedRecord(post) ==
    [uri    |-> post.uri,
     text   |-> post.record.text,
     embed  |-> IF post.record.embed = Absent THEN <<>>
                ELSE <<<<"https://cdn.bsky.app/img/feed_thumbnail/plain/",
                         post.author.did, "/", "abc123", "@", "jpeg">>>>,
     facets |-> IF post.record.facets = Absent THEN <<>>
                ELSE <<[uri |-> "https://x.test", start |-> 5, end |-> 10]>>]

\* C1: the thread built from any raw reply tree is non-empty, its first
\* element is the normalized root post, and every later element comes from a
\* raw node whose author did is the root author's.
C1_RootFirstSameAuthor ==
    threadDone =>
        /\ out # Thrown
        /\ out.message = "success"
        /\ Len(out.thread) >= 1
        /\ out.thread[1] = ExpectedRecord(rootPost)
        /\ \A p \in 2..Len(out.thread) :
              \E i \in 1..Len(rawNodes) :
                  /\ rawNodes[i].post.uri = out.thread[p].uri
                  /\ rawNodes[i].post.author.did = rootPost.author.did

\* a thread of three posts was built from a tree whose root has an image and
\* a link, and which also holds a reply of another author
C1_Witness ==
    /\ threadDone
    /\ rootPost.record = richRootRecord
    /\ Len(out.thread) >= 3
    /\ \E i \in 1..Len(rawNodes) : rawNodes[i].post.author.did # rootPost.author.did

\* C2 as stated: every element after the first comes from a node whose
\* reply.parent.cid is the cid of the element just before it (and whose
\* reply.root.cid is the root's cid).
C2_Linearity ==
    threadDone =>
        \A p \in 2..Len(out.thread) :
            /\ RawOf(out.thread[p]).record.reply.parent.cid = RawOf(out.thread[p - 1]).cid
            /\ RawOf(out.thread[p]).record.reply.root.cid = rootPost.cid

\* C2 amended: every element after the first comes from a node whose
\* reply.parent.cid is the cid of the post whose replies array holds it, that
\* post standing at an earlier position of the thread (not necessarily the
\* one just before), and whose reply.root.cid is the root's cid.
C2_ParentIsContainer ==
    threadDone =>
        \A p \in 2..Len(out.thread) :
            LET i == RawIdx(out.thread[p]) IN
            /\ i # 0
            /\ rawNodes[i].post.record.reply.parent.cid = ContainerPost(i).cid
            /\ \E q \in 1..(p - 1) : out.thread[q].uri = ContainerPost(i).uri
            /\ rawNodes[i].post.record.reply.root.cid = rootPost.cid

\* the root has two replies of its author, both with parent = root cid, and
\* both are in the thread: the second does not follow its parent
C2_Witness ==
    /\ threadDone
    /\ Len(out.thread) >= 3
    /\ \E p \in 3..Len(out.thread) :
          /\ RawOf(out.thread[p]).record.reply.parent.cid = rootPost.cid
          /\ RawOf(out.thread[p - 1]).cid # rootPost.cid

RECURSIVE InSubtree(_, _)
\* node j is node i or lies below it
InSubtree(j, i) ==
    \/ j = i
    \/ (j # 0 /\ rawNodes[j].up # 0 /\ InSubtree(rawNodes[j].up, i))

\* C3: a reply of another author is not in the thread, and neither is any
\* node below it, whoever wrote it and whatever its reply references say.
C3_BranchPruned ==
    threadDone =>
        \A i \in 1..Len(rawNodes) :
            rawNodes[i].post.author.did # rootPost.author.did =>
                \A j \in i..Len(rawNodes) : InSubtree(j, i) => PositionsOf(j) = {}

\* a foreign reply has a reply by the root author that names the root as its
\* root and the foreign reply as its parent
C3_Witness ==
    /\ threadDone
    /\ \E i, j \in 1..Len(rawNodes) :
          /\ rawNodes[i].post.author.did # rootPost.author.did
          /\ rawNodes[j].up = i
          /\ rawNodes[j].post.author.did = rootPost.author.did
          /\ rawNodes[j].post.record.reply.root.cid = rootPost.cid
          /\ rawNodes[j].post.record.reply.parent.cid = rawNodes[i].post.cid

\* node i passes the three tests against the post that holds it
Passes(i) ==
    /\ rawNodes[i].post.author.did = rootPost.author.did
    /\ rawNodes[i].post.record.reply.root.cid = rootPost.cid
    /\ rawNodes[i].post.record.reply.parent.cid = ContainerPost(i).cid

\* the nodes that pass, all of whose ancestors below the root pass too
AdmittedNodes ==
    {i \in 1..Len(rawNodes) : \A a \in 1..i : InSubtree(i, a) => Passes(a)}

\* C10: the output of extractReplies is exactly the pre-order listing
\* (siblings in document order) of the admitted nodes, each once.
C10_PreorderOfAdmitted ==
    threadDone =>
        /\ Len(out.thread) = 1 + Cardinality(AdmittedNodes)
        /\ \A i \in AdmittedNodes :
              out.thread[1 + Cardinality({a \in AdmittedNodes : a <= i})] =
                  ExpectedRecord(rawNodes[i].post)

\* an admitted reply with an admitted reply of its own is followed by an
\* admitted sibling
C10_Witness ==
    /\ threadDone
    /\ \E i, j, k \in 1..Len(rawNodes) :
          /\ {i, j, k} \subseteq AdmittedNodes
          /\ rawNodes[j].up = i
          /\ rawNodes[k].up = rawNodes[i].up
          /\ i < j /\ j < k
          /\ PositionsOf(i) # {} /\ PositionsOf(j) # {} /\ PositionsOf(k) # {}

\* ---- the request pipeline (Spec: overlapping requests; SpecSeq: one at a time)
\* the operations request r has issued, by name
Ops(r) == [k \in 1..Len(calls[r]) |-> calls[r][k].op]
Issued(r, op) == \E k \in 1..Len(calls[r]) : calls[r][k].op = op
TimesIssued(r, op) == Cardinality({k \in 1..Len(calls[r]) : calls[r][k].op = op})
\* fetchThread returned a ThreadResult to request r
Succeeded(r) == pc[r] = "done" /\ result[r] # Thrown /\ result[r].message = "success"
\* request r found a stored value
Hit(r) == entry[r] # NoValue /\ entry[r] # NullValue

\* C4 as stated: for every URL the pipeline runs at most once, the entry is
\* written at most once, and a stored value is never replaced by another.
C4_AtMostOnceWriteOnce ==
    /\ \A u \in PostURLs :
          /\ Cardinality({r \in Reqs : url[r] = u /\ Issued(r, "page")}) <= 1
          /\ Cardinality({r \in Reqs : \E w \in wrote[r] : w.key = u}) <= 1
    /\ \A r \in Reqs : \A w \in wrote[r] : kv[w.key] = w.value

\* C4 amended: only a request whose kv.get found no entry runs the pipeline or
\* writes, it issues each step at most once and writes only its own URL; a
\* request whose kv.get found a value returns that value and issues nothing
\* else. (Requests that all missed each run the pipeline and each write.)
C4_OnlyMissesRunAndWrite ==
    \A r \in Reqs :
        /\ Hit(r) => /\ Ops(r) = <<"kv.get">>
                     /\ wrote[r] = {}
                     /\ pc[r] = "done" /\ result[r] = entry[r]
        /\ \A op \in {"kv.get", "page", "feed", "kv.set"} : TimesIssued(r, op) <= 1
        /\ Cardinality(wrote[r]) <= 1
        /\ \A w \in wrote[r] : w.key = url[r] /\ entry[r] = NullValue

\* two requests for one URL both missed, both ran the pipeline and both
\* wrote, the later write replacing the earlier value by a different one
C4_Witness ==
    \E r1, r2 \in Reqs :
        /\ r1 # r2 /\ url[r1] = url[r2]
        /\ Succeeded(r1) /\ Succeeded(r2)
        /\ wrote[r1] # {} /\ wrote[r2] # {}
        /\ result[r1] # result[r2]
        /\ kv[url[r1]] = result[r2]

\* C5: of two calls in sequence with the same URL, the first returning a
\* ThreadResult, the second returns the same value and issues neither the
\* page fetch nor the feed fetch, whatever the feed would serve by then.
C5_SecondCallIsHit ==
    \A r1, r2 \in Reqs :
        (/\ r1 \in doneBefore[r2]
         /\ url[r1] = url[r2]
         /\ Succeeded(r1)
         /\ pc[r2] = "done")
        => /\ result[r2] = result[r1]
           /\ status[r2] = status[r1]
           /\ Ops(r2) = <<"kv.get">>

\* a call that ran the whole pipeline was followed by a call for the same URL
\* that has ended
C5_Witness ==
    \E r1, r2 \in Reqs :
        /\ r1 \in doneBefore[r2]
        /\ url[r1] = url[r2]
        /\ Succeeded(r1) /\ Issued(r1, "kv.set")
        /\ Len(result[r1].thread) >= 2
        /\ pc[r2] = "done"

\* C6 as stated: a request whose page was fetched and parsed but has no
\* marker element ends with the fixed error message and status 400, and no
\* feed call is made for it.
C6_NoIdentifierIs400 ==
    \A r \in Reqs :
        (pc[r] = "done" /\ doc[r] = DocWithoutMarker)
        => /\ result[r] = InvalidURL
           /\ status[r] = 400
           /\ ~Issued(r, "feed")

\* C7: a request whose page fetch failed is answered exactly
\* {message: "Error: Invalid URL"}, issues no feed call and no kv.set, and
\* leaves its URL without an entry, so that the next request for the URL
\* misses and issues the page fetch again.
C7_PageFailureLeavesNoEntry ==
    \A r \in Reqs :
        (pc[r] = "done" /\ doc[r] = NullDoc)
        => /\ result[r] = InvalidURL
           /\ Ops(r) = <<"kv.get", "page">>
           /\ wrote[r] = {}
           /\ (\A q \in Reqs : q > r => pc[q] = "idle") => kv[url[r]] = NullValue
           /\ \A q \in Reqs :
                 (q = r + 1 /\ url[q] = url[r] /\ pc[q] \notin {"idle", "kv.get"})
                 => entry[q] = NullValue /\ Issued(q, "page")

\* after a failed page fetch the next request for the same URL has run the
\* pipeline and stored its result
C7_Witness ==
    \E r, q \in Reqs :
        /\ q = r + 1
        /\ pc[r] = "done" /\ doc[r] = NullDoc
        /\ url[q] = url[r]
        /\ Succeeded(q) /\ wrote[q] # {}

\* a value is a complete ThreadResult
IsThreadResult(v) ==
    /\ DOMAIN v = {"message", "author", "thread"}
    /\ v.message = "success"
    /\ v.author \in [did : Dids]
    /\ Len(v.thread) >= 1
    /\ \A k \in 1..Len(v.thread) : DOMAIN v.thread[k] = {"uri", "text", "embed", "facets"}

\* C8: every value in the store is a complete ThreadResult with message
\* "success" and a non-empty thread, and a request that ended with an
\* ErrorResult or by a throw has written nothing, under no key.
C8_OnlySuccessStored ==
    /\ \A u \in PostURLs : kv[u] # NullValue => IsThreadResult(kv[u])
    /\ \A r \in Reqs : \A w \in wrote[r] : IsThreadResult(w.value)
    /\ \A r \in Reqs : (pc[r] = "done" /\ ~Succeeded(r)) => wrote[r] = {}

\* one request stored a thread while another, for the other URL, ended by a
\* throw after a feed response without a thread or after a rejected kv.set
C8_Witness ==
    \E r1, r2 \in Reqs :
        /\ Succeeded(r1) /\ wrote[r1] # {}
        /\ pc[r2] = "done" /\ result[r2] = Thrown /\ Issued(r2, "feed")
        /\ url[r2] # url[r1]
        /\ kv[url[r1]] = result[r1] /\ kv[url[r2]] = NullValue

====
